---- MODULE Spec2Model ----
(***************************************************************************)
(* Audio fingerprint index: the index builder (build_from_full_manifest.py)*)
(* over the SQLite store (index_db.py), the landmark-pair hasher           *)
(* (audio_hasher.py) and the matcher (recognize_snippet.py).               *)
(*                                                                         *)
(* The store is modelled as SQLite behaves under Python's sqlite3 module:  *)
(* db is what has been committed (what another connection reads), work is  *)
(* what the builder's own connection reads, its uncommitted rows included. *)
(* A statement that fails leaves the rows of the statements before it in   *)
(* the open transaction; only commit publishes, only close discards.       *)
(***************************************************************************)
EXTENDS Integers, Sequences, FiniteSets, TLC

VARIABLES
    db,        \* committed store: [songs, hashes], as an external reader sees it
    work,      \* the builder connection's view: db plus its uncommitted changes
    pc,        \* position of the builder: idle, check, try, close
    mode,      \* "build" or "rebuild": the entry point of the run
    force,     \* --force of the run
    items,     \* normalized manifest items of the run
    i,         \* 1-based index of the item being processed
    attempted, \* number of items of the run the loop body was entered for (history)
    computed,  \* song_id -> what make_hash_from_audio last returned for it in this run (history)
    storeErr,  \* add_song, add_hashes or commit raised in this run (history)
    snapshot,  \* db when the run started (history)
    intended,  \* song_id -> hash list handed to add_hashes with its add_song (history)
    lastBuild, \* [built, items]: whether the last finished run was a build, and of what (history)
    rerun      \* the run is a build of the manifest the previous run built (history)

storeVars == <<db, work, pc, mode, force, items, i, attempted, computed, storeErr,
               snapshot, intended, lastBuild, rerun>>

\* make_hash_from_audio at work on one peak list
VARIABLES
    peaks,     \* what local_maxima returned: (freq_bin, time_frame) pairs, by time
    anchor,    \* 1-based index of the next anchor peak (the loop variable i, plus 1)
    out,       \* the list `hashes` built so far
    scan,      \* the inner loop of the last anchor: [targets, j] (history)
    hpc        \* "hash" while the outer loop runs, "done" after the return, "off"

hashVars == <<peaks, anchor, out, scan, hpc>>

\* match_hashes_sqlite answering one query
VARIABLES
    mStore,    \* the store the matcher reads: [songs, hashes]
    mQuery,    \* the argument `hashes`: (hash, t_query) records
    mTopk,     \* the argument topk
    mScored,   \* scored[:topk], the rows still carrying their song_id (history)
    mResult,   \* the list returned
    mpc        \* "match" before the call, "done" after it, "off"

matchVars == <<mStore, mQuery, mTopk, mScored, mResult, mpc>>

\* match_snippet (the pickle-backed matcher) answering one query
VARIABLES
    pIndex,    \* db["index"]: hash -> [(song_id, t_song)], keys in insertion order
    pQuery,    \* the hashes of the snippet: (hash, t_query) records
    pResult,   \* the list returned
    ppc        \* "match" before the call, "done" after it, "off"

pickleVars == <<pIndex, pQuery, pResult, ppc>>

\* local_maxima at work on one spectrogram
VARIABLES
    spec_in_dB, \* the argument: [bins, frames, dB], dB a value per (freq_bin, time_frame)
    local_max,  \* the cells of the candidate mask of line 48 (history)
    kept,       \* the list returned: (freq_bin, time_frame) pairs
    lpc         \* "peaks" before the call, "done" after it, "off"

peakVars == <<spec_in_dB, local_max, kept, lpc>>

vars == <<storeVars, hashVars, matchVars, pickleVars, peakVars>>

----------------------------------------------------------------------------
(* Bounds of the model *)
MaxItems  == 2   \* manifest entries per run
MaxHashes == 2   \* hash records per track

SongIds  == {1, 2}
Titles   == {"t"}
RECURSIVE SeqsUpTo(_, _)
SeqsUpTo(S, n) ==
    IF n = 0 THEN {<<>>}
    ELSE LET shorter == SeqsUpTo(S, n - 1)
         IN  shorter \cup {Append(q, x) : q \in {r \in shorter : Len(r) = n - 1}, x \in S}

\* Results of read_full_track_pcm + make_hash_from_audio for one item: the
\* (hash, t_anchor) records of a recording, which is cut after 1..MaxHashes
\* of them.
Recording(n) == [k \in 1..n |-> IF k % 2 = 1 THEN <<"a", 0>> ELSE <<"b", 1>>]
AudioHashes == {Recording(n) : n \in 1..MaxHashes}

\* Raw manifest entries: an entry without one of the four keys is "bad".
GoodItems == [song_id : SongIds, title : Titles]
BadItem   == [title |-> "t"]
Manifests == SeqsUpTo(GoodItems \cup {BadItem}, MaxItems)

----------------------------------------------------------------------------
(* index_db.py and the store helpers of build_from_full_manifest.py *)

EmptyStore == [songs |-> <<>>, hashes |-> <<>>]

\* bytes.fromhex(h): the 16-byte BLOB of a hex digest.
FromHex(h) == <<"blob", h>>

DeleteRows(rows, sid) ==
    LET keep(r) == r.song_id # sid IN SelectSeq(rows, keep)

\* song_exists as it would be were the SELECT to find no row
song_exists_never(st, sid) == FALSE

song_exists(st, sid) ==
    \E n \in 1..Len(st.songs) : st.songs[n].song_id = sid

\* delete_song as it would be without the WHERE clause on hashes
delete_song_every_hash(st, sid) ==
    [songs |-> DeleteRows(st.songs, sid), hashes |-> <<>>]

\* delete_song as it would be without the DELETE FROM hashes
delete_song_keep_hashes(st, sid) ==
    [songs |-> DeleteRows(st.songs, sid), hashes |-> st.hashes]

\* The two DELETE statements of delete_song; its conn.commit() is the db' = work'
\* of the action that calls it.
delete_song(st, sid) ==
    [songs |-> DeleteRows(st.songs, sid), hashes |-> DeleteRows(st.hashes, sid)]

\* INSERT OR REPLACE INTO songs: song_id is the INTEGER PRIMARY KEY (the rowid),
\* so the row replaces any row of that id and the table stays in song_id order.
add_song(st, sid, title) ==
    LET lower(r)  == r.song_id < sid
        higher(r) == r.song_id > sid
    IN  [st EXCEPT !.songs = SelectSeq(@, lower)
                              \o <<[song_id |-> sid, title |-> title]>>
                              \o SelectSeq(@, higher)]

\* executemany INSERT INTO hashes: the first n rows of hash_list are inserted
\* (n = Len(hash_list) when the call succeeds, fewer when a row's INSERT fails).
add_hashes(st, sid, hash_list, n) ==
    [st EXCEPT !.hashes = @ \o [k \in 1..n |->
        [hash |-> FromHex(hash_list[k][1]), song_id |-> sid, t_song |-> hash_list[k][2]]]]

HashRowsOf(st, sid) ==
    LET mine(r) == r.song_id = sid IN SelectSeq(st.hashes, mine)

SongRowsOf(st, sid) ==
    LET mine(r) == r.song_id = sid IN SelectSeq(st.songs, mine)

----------------------------------------------------------------------------
(* normalize_items: drop entries lacking a key, sort by song_id (stable) *)

RECURSIVE InsertSorted(_, _)
InsertSorted(sorted, it) ==
    IF sorted = <<>> THEN <<it>>
    ELSE IF sorted[Len(sorted)].song_id <= it.song_id THEN Append(sorted, it)
    ELSE Append(InsertSorted(SubSeq(sorted, 1, Len(sorted) - 1), it), sorted[Len(sorted)])

RECURSIVE SortBySongId(_)
SortBySongId(s) ==
    IF s = <<>> THEN <<>>
    ELSE InsertSorted(SortBySongId(SubSeq(s, 1, Len(s) - 1)), s[Len(s)])

normalize_items(manifest) ==
    LET complete(it) == "song_id" \in DOMAIN it
    IN  SortBySongId(SelectSeq(manifest, complete))

\* What normalize_items(load_manifest_any(path)) can return.
ItemLists == {normalize_items(m) : m \in Manifests}

----------------------------------------------------------------------------
(* The builder *)

StoreInit ==
    /\ db = EmptyStore
    /\ work = EmptyStore
    /\ pc = "idle"
    /\ mode = "build"
    /\ force = FALSE
    /\ items = <<>>
    /\ i = 1
    /\ attempted = 0
    /\ computed = [s \in SongIds |-> <<>>]
    /\ storeErr = FALSE
    /\ snapshot = EmptyStore
    /\ intended = [s \in SongIds |-> <<>>]
    /\ lastBuild = [built |-> FALSE, items |-> <<>>]
    /\ rerun = FALSE

\* Entering the loop at item n, or leaving it for the finally clause.
Goto(its, n) ==
    /\ i' = n
    /\ pc' = IF n <= Len(its) THEN "check" ELSE "close"

\* the loop as it would be with `break` (or no except clause) in place of `continue`
ContinueAsBreak(its, n) == Goto(its, Len(its) + 1)

\* `continue` in the loop body: on to the next item.
Continue(its, n) == Goto(its, n + 1)

StartRun(m, its, f) ==
    /\ pc = "idle"
    /\ rerun' = (m = "build" /\ lastBuild.built /\ lastBuild.items = its)
    /\ mode' = m
    /\ force' = f
    /\ items' = its
    /\ attempted' = 0
    /\ computed' = [s \in SongIds |-> <<>>]
    /\ storeErr' = FALSE
    /\ snapshot' = db
    /\ work' = db              \* init_db: a fresh connection, no open transaction
    /\ Goto(its, 1)
    /\ UNCHANGED <<db, intended, lastBuild>>
    /\ UNCHANGED <<hashVars, matchVars, pickleVars, peakVars>>

\* build_fingerprint_db_from_json up to the loop
StartBuild ==
    \E its \in ItemLists :
        StartRun("build", its, FALSE)

\* rebuild_specific_ids up to the loop; returns at once when no item is wanted
StartRebuild ==
    \E its \in ItemLists, want \in SUBSET SongIds, f \in BOOLEAN :
        LET wanted(it) == it.song_id \in want
            mine == SelectSeq(its, wanted)
        IN  /\ mine # <<>>
            /\ StartRun("rebuild", mine, f)

\* song_exists on the builder's connection; SKIP, or FORCE with delete_song
\* (two DELETEs and a commit of everything the connection has pending).
CheckItem ==
    /\ pc = "check"
    /\ LET sid == items[i].song_id
       IN  IF song_exists(work, sid)
           THEN IF mode = "rebuild" /\ force
                THEN /\ work' = delete_song(work, sid)
                     /\ db' = work'
                     /\ pc' = "try"
                     /\ UNCHANGED i
                ELSE /\ Continue(items, i)
                     /\ UNCHANGED <<db, work>>
           ELSE /\ pc' = "try"
                /\ UNCHANGED <<db, work, i>>
    /\ attempted' = attempted + 1
    /\ UNCHANGED <<mode, force, items, computed, storeErr, snapshot, intended,
                   lastBuild, rerun>>
    /\ UNCHANGED <<hashVars, matchVars, pickleVars, peakVars>>

\* The try block of one item. read_full_track_pcm raises, or make_hash_from_audio
\* returns [] (continue), or hashes; then add_song; add_hashes; conn.commit(),
\* each of which may raise. except Exception logs and continues: no rollback.
TryItem ==
    /\ pc = "try"
    /\ LET sid == items[i].song_id
       IN  \/ /\ computed' = [computed EXCEPT ![sid] = <<>>]      \* acquisition raised / no hashes
              /\ UNCHANGED <<db, work, intended, storeErr>>
           \/ \E h \in AudioHashes :
                LET withSong == add_song(work, sid, items[i].title)
                    full     == add_hashes(withSong, sid, h, Len(h))
                IN  /\ computed' = [computed EXCEPT ![sid] = h]
                    /\ \/ /\ storeErr' = TRUE                       \* add_song raised
                          /\ UNCHANGED <<db, work, intended>>
                       \/ \E n \in 0..(Len(h) - 1) :                 \* add_hashes raised at row n+1
                            /\ work' = add_hashes(withSong, sid, h, n)
                            /\ intended' = [intended EXCEPT ![sid] = h]
                            /\ storeErr' = TRUE
                            /\ UNCHANGED db
                       \/ /\ work' = full                            \* commit raised
                          /\ intended' = [intended EXCEPT ![sid] = h]
                          /\ storeErr' = TRUE
                          /\ UNCHANGED db
                       \/ /\ work' = full                            \* stored
                          /\ db' = full
                          /\ intended' = [intended EXCEPT ![sid] = h]
                          /\ UNCHANGED storeErr
    /\ Continue(items, i)
    /\ UNCHANGED <<mode, force, items, attempted, snapshot, lastBuild, rerun>>
    /\ UNCHANGED <<hashVars, matchVars, pickleVars, peakVars>>

\* finally: conn.close() discards an open transaction; the invocation returns
Close ==
    /\ pc = "close"
    /\ pc' = "idle"
    /\ work' = db
    /\ lastBuild' = IF mode = "build" THEN [built |-> TRUE, items |-> items]
                                      ELSE [built |-> FALSE, items |-> <<>>]
    /\ intended' = [s \in SongIds |-> IF song_exists(db, s) THEN intended[s] ELSE <<>>]
    /\ mode' = "build"
    /\ force' = FALSE
    /\ items' = <<>>
    /\ i' = 1
    /\ attempted' = 0
    /\ computed' = [s \in SongIds |-> <<>>]
    /\ storeErr' = FALSE
    /\ snapshot' = db
    /\ rerun' = FALSE
    /\ UNCHANGED db
    /\ UNCHANGED <<hashVars, matchVars, pickleVars, peakVars>>

----------------------------------------------------------------------------
(* audio_hasher.py: the landmark-pair hasher *)

TARGET_ZONE_T_MIN  == 2
TARGET_ZONE_T_MAX  == 64
TARGET_ZONE_F_BINS == 48
HASH_FANOUT        == 8

Abs(x) == IF x < 0 THEN 0 - x ELSE x

\* hash_pair: the MD5 hex digest of "f1|f2|dt". The digest is kept as the text
\* it is taken of, i.e. as a digest without collisions.
hash_pair(f1, f2, dt) == <<f1, f2, dt>>

\* line 109 as it would be without time2 >= t_min
InZoneNoMin(pk, a, j) ==
    Abs(pk[j][1] - pk[a][1]) <= TARGET_ZONE_F_BINS

\* The test of line 109 on the peak at j for the anchor at a.
InZone(pk, a, j) ==
    /\ pk[j][2] >= pk[a][2] + TARGET_ZONE_T_MIN
    /\ Abs(pk[j][1] - pk[a][1]) <= TARGET_ZONE_F_BINS

\* the while loop as it would be with `if count > HASH_FANOUT: break`
RECURSIVE ScanTargetsPastCap(_, _, _, _)
ScanTargetsPastCap(pk, a, j, sofar) ==
    IF j <= Len(pk) /\ pk[j][2] <= pk[a][2] + TARGET_ZONE_T_MAX
    THEN IF pk[j][2] >= pk[a][2] + TARGET_ZONE_T_MIN
            /\ Abs(pk[j][1] - pk[a][1]) <= TARGET_ZONE_F_BINS
         THEN LET h    == <<pk[a][1], pk[j][1], pk[j][2] - pk[a][2]>>
                  more == [hashes  |-> Append(sofar.hashes, <<h, pk[a][2]>>),
                           targets |-> Append(sofar.targets, j)]
              IN  IF Len(more.targets) > HASH_FANOUT
                  THEN [hashes |-> more.hashes, targets |-> more.targets, j |-> j]
                  ELSE ScanTargetsPastCap(pk, a, j + 1, more)
         ELSE ScanTargetsPastCap(pk, a, j + 1, sofar)
    ELSE [hashes |-> sofar.hashes, targets |-> sofar.targets, j |-> j]

\* The while loop of lines 107-115 for the anchor at a, from target index j on:
\* the hashes appended, the target indices they were made with, and the index
\* the loop stopped at.
RECURSIVE ScanTargets(_, _, _, _)
ScanTargets(pk, a, j, sofar) ==
    IF j <= Len(pk) /\ pk[j][2] <= pk[a][2] + TARGET_ZONE_T_MAX
    THEN IF InZone(pk, a, j)
         THEN LET h    == hash_pair(pk[a][1], pk[j][1], pk[j][2] - pk[a][2])
                  more == [hashes  |-> Append(sofar.hashes, <<h, pk[a][2]>>),
                           targets |-> Append(sofar.targets, j)]
              IN  IF Len(more.targets) >= HASH_FANOUT
                  THEN [hashes |-> more.hashes, targets |-> more.targets, j |-> j]
                  ELSE ScanTargets(pk, a, j + 1, more)
         ELSE ScanTargets(pk, a, j + 1, sofar)
    ELSE [hashes |-> sofar.hashes, targets |-> sofar.targets, j |-> j]

(* Peak lists: local_maxima returns distinct (freq, time) cells sorted by time *)
MaxRichPeaks == 3    \* length of the lists that step over the zone's borders
MaxPeaks     == 12   \* length of the lists with a peak in every frame

\* (frames to the next peak, its freq bin)
RichMoves  == {0, 1, 2, 64, 65} \X {0, 48, 97}
DenseMoves == {1} \X {0, 97}

NextPeaks(pk, moves) ==
    {Append(pk, <<m[2], pk[Len(pk)][2] + m[1]>>) : m \in
        {m \in moves : \A n \in 1..Len(pk) : pk[n] # <<m[2], pk[Len(pk)][2] + m[1]>>}}

RECURSIVE PeakListsOf(_, _, _)
PeakListsOf(n, starts, moves) ==
    IF n = 0 THEN {<<>>}
    ELSE IF n = 1 THEN {<<>>} \cup {<<p>> : p \in starts}
    ELSE LET shorter == PeakListsOf(n - 1, starts, moves)
         IN  shorter \cup UNION {NextPeaks(pk, moves) : pk \in {q \in shorter : Len(q) = n - 1}}

PeakLists ==
    PeakListsOf(MaxRichPeaks, {<<0, 0>>, <<48, 0>>, <<97, 0>>}, RichMoves)
    \cup PeakListsOf(MaxPeaks, {<<0, 0>>, <<97, 0>>}, DenseMoves)

HashOff ==
    /\ peaks = <<>>
    /\ anchor = 1
    /\ out = <<>>
    /\ scan = [targets |-> <<>>, j |-> 1]
    /\ hpc = "off"

HashInit ==
    /\ peaks \in PeakLists
    /\ anchor = 1
    /\ out = <<>>
    /\ scan = [targets |-> <<>>, j |-> 1]
    /\ hpc = "hash"

\* one turn of the for loop of line 98
HashAnchor ==
    /\ hpc = "hash"
    /\ anchor <= Len(peaks)
    /\ LET r == ScanTargets(peaks, anchor, anchor + 1, [hashes |-> <<>>, targets |-> <<>>])
       IN  /\ out' = out \o r.hashes
           /\ scan' = [targets |-> r.targets, j |-> r.j]
    /\ anchor' = anchor + 1
    /\ UNCHANGED <<peaks, hpc>>
    /\ UNCHANGED <<storeVars, matchVars, pickleVars, peakVars>>

\* return hashes (line 116), or return [] for an empty peak list (line 94)
HashReturn ==
    /\ hpc = "hash"
    /\ anchor > Len(peaks)
    /\ hpc' = "done"
    /\ UNCHANGED <<peaks, anchor, out, scan>>
    /\ UNCHANGED <<storeVars, matchVars, pickleVars, peakVars>>

HashNext == HashAnchor \/ HashReturn

----------------------------------------------------------------------------
(* recognize_snippet.py: match_hashes_sqlite *)

\* by_hash as it would be with by_hash[h] = [int(t)] in place of the append
RECURSIVE GroupByHashOverwriting(_, _, _)
GroupByHashOverwriting(q, n, by_hash) ==
    IF n > Len(q) THEN by_hash
    ELSE LET at == {k \in 1..Len(by_hash) : by_hash[k].hash = q[n][1]}
         IN  IF at = {}
             THEN GroupByHashOverwriting(q, n + 1,
                      Append(by_hash, [hash |-> q[n][1], ts |-> <<q[n][2]>>]))
             ELSE LET k == CHOOSE k \in at : TRUE
                  IN  GroupByHashOverwriting(q, n + 1,
                          [by_hash EXCEPT ![k].ts = <<q[n][2]>>])

\* by_hash (lines 54-56): a dict keeps its keys in order of first insertion;
\* each key has its t_query values in query order.
RECURSIVE GroupByHash(_, _, _)
GroupByHash(q, n, by_hash) ==
    IF n > Len(q) THEN by_hash
    ELSE LET h == q[n][1]
             t == q[n][2]
             at == {k \in 1..Len(by_hash) : by_hash[k].hash = h}
         IN  IF at = {}
             THEN GroupByHash(q, n + 1, Append(by_hash, [hash |-> h, ts |-> <<t>>]))
             ELSE LET k == CHOOSE k \in at : TRUE
                  IN  GroupByHash(q, n + 1, [by_hash EXCEPT ![k].ts = Append(@, t)])

\* SELECT song_id, t_song FROM hashes WHERE hash = ? (line 64), in rowid order
Lookup(st, hbin) ==
    LET hit(r) == r.hash = hbin IN SelectSeq(st.hashes, hit)

\* votes[song_id][ts - tq] += 1 (line 70) on nested insertion-ordered dicts
AddVote(votes, sid, delta) ==
    LET at == {k \in 1..Len(votes) : votes[k].song_id = sid}
    IN  IF at = {}
        THEN Append(votes, [song_id |-> sid, offsets |-> <<[delta |-> delta, n |-> 1]>>])
        ELSE LET k  == CHOOSE k \in at : TRUE
                 od == {d \in 1..Len(votes[k].offsets) : votes[k].offsets[d].delta = delta}
             IN  IF od = {}
                 THEN [votes EXCEPT ![k].offsets = Append(@, [delta |-> delta, n |-> 1])]
                 ELSE LET d == CHOOSE d \in od : TRUE
                      IN  [votes EXCEPT ![k].offsets[d].n = @ + 1]

\* lines 69-70: for tq in t_queries
RECURSIVE VoteRow(_, _, _, _)
VoteRow(votes, row, ts, k) ==
    IF k > Len(ts) THEN votes
    ELSE VoteRow(AddVote(votes, row.song_id, row.t_song - ts[k]), row, ts, k + 1)

\* lines 67-70: for song_id, t_song in rows
RECURSIVE VoteRows(_, _, _, _)
VoteRows(votes, rows, ts, r) ==
    IF r > Len(rows) THEN votes
    ELSE VoteRows(VoteRow(votes, rows[r], ts, 1), rows, ts, r + 1)

\* lines 62-70: for hex_hash, t_queries in by_hash.items()
RECURSIVE VoteGroups(_, _, _, _)
VoteGroups(votes, st, by_hash, g) ==
    IF g > Len(by_hash) THEN votes
    ELSE VoteGroups(VoteRows(votes, Lookup(st, FromHex(by_hash[g].hash)), by_hash[g].ts, 1),
                    st, by_hash, g + 1)

\* max(offsets.items(), key=lambda x: x[1]) (line 74): the first largest count
RECURSIVE BestOf(_, _, _)
BestOf(offsets, k, best) ==
    IF k > Len(offsets) THEN best
    ELSE BestOf(offsets, k + 1, IF offsets[k].n > best.n THEN offsets[k] ELSE best)

\* the sum as it would be were it len(offsets): the offsets that got a vote
RECURSIVE SumCountsDistinct(_, _)
SumCountsDistinct(offsets, k) ==
    IF k > Len(offsets) THEN 0 ELSE 1 + SumCountsDistinct(offsets, k + 1)

\* sum(offsets.values()) (line 75)
RECURSIVE SumCounts(_, _)
SumCounts(offsets, k) ==
    IF k > Len(offsets) THEN 0 ELSE offsets[k].n + SumCounts(offsets, k + 1)

\* lines 72-75: (song_id, count, best_delta, sum) per song, in dict order
Score(votes) ==
    [k \in 1..Len(votes) |->
        LET best == BestOf(votes[k].offsets, 2, votes[k].offsets[1])
        IN  [song_id |-> votes[k].song_id, votes |-> best.n, offset |-> best.delta,
             total_hits |-> SumCounts(votes[k].offsets, 1)]]

\* the sort as it would be were rows of equal count to come out reversed
\* (sort ascending, then reverse the list)
RECURSIVE InsertByVotesReversingTies(_, _)
InsertByVotesReversingTies(sorted, x) ==
    IF sorted = <<>> THEN <<x>>
    ELSE IF sorted[Len(sorted)].votes > x.votes THEN Append(sorted, x)
    ELSE Append(InsertByVotesReversingTies(SubSeq(sorted, 1, Len(sorted) - 1), x),
                sorted[Len(sorted)])

\* scored.sort(key=lambda x: x[1], reverse=True) (line 77): a stable sort, so
\* rows of equal count keep their order
RECURSIVE InsertByVotes(_, _)
InsertByVotes(sorted, x) ==
    IF sorted = <<>> THEN <<x>>
    ELSE IF sorted[Len(sorted)].votes >= x.votes THEN Append(sorted, x)
    ELSE Append(InsertByVotes(SubSeq(sorted, 1, Len(sorted) - 1), x), sorted[Len(sorted)])

RECURSIVE SortByVotes(_)
SortByVotes(scored) ==
    IF scored = <<>> THEN <<>>
    ELSE InsertByVotes(SortByVotes(SubSeq(scored, 1, Len(scored) - 1)), scored[Len(scored)])

\* load_meta and meta.get(song_id, ("?", "?")) (lines 78, 83)
MetaGet(st, sid) ==
    IF song_exists(st, sid)
    THEN (CHOOSE r \in {st.songs[n] : n \in 1..Len(st.songs)} : r.song_id = sid).title
    ELSE "?"

\* scored[:topk] for topk >= 0 (line 82)
Top(scored, topk) == SubSeq(scored, 1, IF topk <= Len(scored) THEN topk ELSE Len(scored))

\* the rows match_hashes_sqlite ranks, before the metadata replaces song_id
Scored(q, st, topk) ==
    IF Len(q) = 0 THEN <<>>
    ELSE Top(SortByVotes(Score(VoteGroups(<<>>, st, GroupByHash(q, 1, <<>>), 1))), topk)

match_hashes_sqlite(q, st, topk) ==
    LET top == Scored(q, st, topk)
    IN  [k \in 1..Len(top) |->
            <<MetaGet(st, top[k].song_id), top[k].votes, top[k].offset, top[k].total_hits>>]

(* Queries and stores for the matcher. A build stores the hashes of one song
   in one add_hashes call, so the rows of a song are adjacent in the table. *)
MaxPostings == 2   \* hash rows per song
MaxQuery    == 2   \* records per query
MaxTopk     == 2

MatchRecs == {<<"a", 0>>, <<"a", 1>>, <<"b", 0>>}
TitleOf(sid) == <<"title", sid>>

\* the store after building the songs of `order`, each with its hash list
RECURSIVE BuiltStore(_, _, _)
BuiltStore(order, lists, n) ==
    IF n = 0 THEN EmptyStore
    ELSE LET st  == BuiltStore(order, lists, n - 1)
             sid == order[n]
         IN  IF lists[sid] = <<>> THEN st
             ELSE add_hashes(add_song(st, sid, TitleOf(sid)), sid, lists[sid], Len(lists[sid]))

MatchOff ==
    /\ mStore = EmptyStore
    /\ mQuery = <<>>
    /\ mTopk = 1
    /\ mScored = <<>>
    /\ mResult = <<>>
    /\ mpc = "off"

MatchInit ==
    /\ \E order \in {<<1, 2>>, <<2, 1>>} :
       \E lists \in [SongIds -> SeqsUpTo(MatchRecs, MaxPostings)] :
            mStore = BuiltStore(order, lists, 2)
    /\ mQuery \in SeqsUpTo(MatchRecs, MaxQuery)
    /\ mTopk \in 1..MaxTopk
    /\ mScored = <<>>
    /\ mResult = <<>>
    /\ mpc = "match"

Match ==
    /\ mpc = "match"
    /\ mScored' = Scored(mQuery, mStore, mTopk)
    /\ mResult' = match_hashes_sqlite(mQuery, mStore, mTopk)
    /\ mpc' = "done"
    /\ UNCHANGED <<mStore, mQuery, mTopk>>
    /\ UNCHANGED <<storeVars, hashVars, pickleVars, peakVars>>

MatchNext == Match

----------------------------------------------------------------------------
(* audio_hasher.py: build_index and match_snippet, the pickle-backed matcher *)

\* index.setdefault(hash, []).append((song_id, time)) (line 138): the key is
\* the hex digest itself; a new key goes to the end of the dict
IndexAppend(index, h, sid, t) ==
    LET at   == {k \in 1..Len(index) : index[k].hash = h}
        post == [song_id |-> sid, t_song |-> t]
    IN  IF at = {}
        THEN Append(index, [hash |-> h, posts |-> <<post>>])
        ELSE LET k == CHOOSE k \in at : TRUE
             IN  [index EXCEPT ![k].posts = Append(@, post)]

\* lines 137-138: for hash, time in hashes
RECURSIVE IndexSong(_, _, _, _)
IndexSong(index, sid, hashes, n) ==
    IF n > Len(hashes) THEN index
    ELSE IndexSong(IndexAppend(index, hashes[n][1], sid, hashes[n][2]), sid, hashes, n + 1)

\* build_index over the songs of `order`, each with its hash list: db["index"]
RECURSIVE build_index(_, _, _)
build_index(order, lists, n) ==
    IF n = 0 THEN <<>>
    ELSE IndexSong(build_index(order, lists, n - 1), order[n], lists[order[n]], 1)

\* index[hash] as it would be were only its first posting read
IndexGetFirstOnly(index, h) ==
    LET at == {k \in 1..Len(index) : index[k].hash = h}
    IN  IF at = {} THEN <<>> ELSE <<index[CHOOSE k \in at : TRUE].posts[1]>>

\* index[hash], and nothing to iterate when `hash not in index` (lines 171-173)
IndexGet(index, h) ==
    LET at == {k \in 1..Len(index) : index[k].hash = h}
    IN  IF at = {} THEN <<>> ELSE index[CHOOSE k \in at : TRUE].posts

\* lines 173-175: for song_id, t_song in index[hash]
RECURSIVE VotePosts(_, _, _, _)
VotePosts(votes, posts, tq, k) ==
    IF k > Len(posts) THEN votes
    ELSE VotePosts(AddVote(votes, posts[k].song_id, posts[k].t_song - tq), posts, tq, k + 1)

\* lines 170-175: for hash, t_query in hashes, in list order
RECURSIVE VoteHashes(_, _, _, _)
VoteHashes(votes, index, q, n) ==
    IF n > Len(q) THEN votes
    ELSE VoteHashes(VotePosts(votes, IndexGet(index, q[n][1]), q[n][2], 1), index, q, n + 1)

\* match_snippet from the hashes of the snippet on (lines 164-183). Its lines
\* 177-182 are the statements of lines 72-77 of match_hashes_sqlite: the
\* first largest count per song, the stable sort on the count; then scored[:1].
match_snippet(q, index) ==
    IF Len(q) = 0 THEN <<>>
    ELSE Top(SortByVotes(Score(VoteHashes(<<>>, index, q, 1))), 1)

(* One library given to both matchers: the same songs with the same hash
   lists in the same order, as SQLite rows and as db["index"]. *)
MaxEqPostings == 3   \* hash records of the first song
MaxEqQuery    == 2   \* records per query

EqRecs       == {<<"a", 0>>, <<"a", 1>>, <<"a", 2>>, <<"b", 0>>}
EqOtherLists == {<<>>, <<<<"a", 0>>>>, <<<<"b", 0>>>>}

PickleOff ==
    /\ pIndex = <<>>
    /\ pQuery = <<>>
    /\ pResult = <<>>
    /\ ppc = "off"

EquivInit ==
    /\ \E order \in {<<1, 2>>, <<2, 1>>} :
       \E first \in SeqsUpTo(EqRecs, MaxEqPostings), other \in EqOtherLists :
            LET lists == [s \in SongIds |-> IF s = 1 THEN first ELSE other]
            IN  /\ mStore = BuiltStore(order, lists, 2)
                /\ pIndex = build_index(order, lists, 2)
    /\ mQuery \in SeqsUpTo(MatchRecs, MaxEqQuery)
    /\ pQuery = mQuery
    /\ mTopk = 1
    /\ mScored = <<>>
    /\ mResult = <<>>
    /\ mpc = "match"
    /\ pResult = <<>>
    /\ ppc = "match"

MatchSnippet ==
    /\ ppc = "match"
    /\ pResult' = match_snippet(pQuery, pIndex)
    /\ ppc' = "done"
    /\ UNCHANGED <<pIndex, pQuery>>
    /\ UNCHANGED <<storeVars, hashVars, matchVars, peakVars>>

EquivNext == Match \/ MatchSnippet

----------------------------------------------------------------------------
(* audio_hasher.py: local_maxima *)

PEAK_NEIGHBORHOOD_F == 16
PEAK_NEIGHBORHOOD_T == 16
TOP_PEAKS_PER_FRAME == 16

\* mode='constant' without a cval argument: scipy's default cval=0.0 is the
\* value of every cell outside the array
CVAL == 0

\* -np.inf, as an integer below every dB value of the model
NEG_INF == 0 - 1000

\* the cells of a spectrogram: (freq_bin, time_frame), both from 0
Cells(S) == (0..(S.bins - 1)) \X (0..(S.frames - 1))

InBounds(S, f, t) == f \in 0..(S.bins - 1) /\ t \in 0..(S.frames - 1)

\* what the filter reads at (f, t): the array inside, cval outside
Cell(S, f, t) == IF InBounds(S, f, t) THEN S.dB[<<f, t>>] ELSE CVAL

\* the footprint np.ones((16, 16)) around (f, t): with origin 0 a window of
\* even size n reaches from n/2 cells before its centre to n/2 - 1 after it
Footprint(f, t) ==
    ((f - PEAK_NEIGHBORHOOD_F \div 2)..(f + PEAK_NEIGHBORHOOD_F - PEAK_NEIGHBORHOOD_F \div 2 - 1))
    \X ((t - PEAK_NEIGHBORHOOD_T \div 2)..(t + PEAK_NEIGHBORHOOD_T - PEAK_NEIGHBORHOOD_T \div 2 - 1))

SetMax(V) == CHOOSE x \in V : \A y \in V : y <= x

\* maximum_filter(spec_in_dB, footprint=..., mode='constant') at (f, t) (line 45)
maximum_filter(S, f, t) == SetMax({Cell(S, c[1], c[2]) : c \in Footprint(f, t)})

\* the mask spec_in_dB == neighborhood (line 48), as the set of its cells
LocalMax(S) == {c \in Cells(S) : S.dB[c] = maximum_filter(S, c[1], c[2])}

\* generate_binary_structure(2, 1): a cell and its four neighbours
Cross == {<<0, 0>>, <<1, 0>>, <<0 - 1, 0>>, <<0, 1>>, <<0, 0 - 1>>}

\* spec_in_dB == -np.inf at (f, t); border_value=1 outside the array
Background(S, f, t) == IF InBounds(S, f, t) THEN S.dB[<<f, t>>] = NEG_INF ELSE TRUE

\* binary_erosion(spec_in_dB == -np.inf, structure=struct, border_value=1) (line 52)
binary_erosion(S) ==
    {c \in Cells(S) : \A o \in Cross : Background(S, c[1] + o[1], c[2] + o[2])}

\* local_max & (~background_erroded) (line 55)
actual_peaks(S) == LocalMax(S) \ binary_erosion(S)

\* peak_by_time_frame[t] (lines 58-63): np.argwhere goes through the rows in
\* order, so the peaks of a frame come by freq_bin ascending
RECURSIVE FramePeaks(_, _, _, _)
FramePeaks(S, A, t, f) ==
    IF f >= S.bins THEN <<>>
    ELSE (IF <<f, t>> \in A THEN <<[freq |-> f, dB |-> S.dB[<<f, t>>]]>> ELSE <<>>)
         \o FramePeaks(S, A, t, f + 1)

\* arr.sort(key=lambda x: x[1], reverse=True) (line 68): stable
RECURSIVE InsertByStrength(_, _)
InsertByStrength(sorted, x) ==
    IF sorted = <<>> THEN <<x>>
    ELSE IF sorted[Len(sorted)].dB >= x.dB THEN Append(sorted, x)
    ELSE Append(InsertByStrength(SubSeq(sorted, 1, Len(sorted) - 1), x), sorted[Len(sorted)])

RECURSIVE SortByStrength(_)
SortByStrength(arr) ==
    IF arr = <<>> THEN <<>>
    ELSE InsertByStrength(SortByStrength(SubSeq(arr, 1, Len(arr) - 1)), arr[Len(arr)])

\* lines 68-70 for one frame: the (freq, time) of arr[:TOP_PEAKS_PER_FRAME]
KeptOfFrame(S, A, t) ==
    LET arr == SortByStrength(FramePeaks(S, A, t, 0))
        n   == IF Len(arr) <= TOP_PEAKS_PER_FRAME THEN Len(arr) ELSE TOP_PEAKS_PER_FRAME
    IN  [k \in 1..n |-> <<arr[k].freq, t>>]

\* kept after kept.sort(key=lambda x: x[1]) (line 71): the sort is stable, so
\* the frames come in order and each frame keeps the order of lines 68-70
RECURSIVE KeptFrom(_, _, _)
KeptFrom(S, A, t) ==
    IF t >= S.frames THEN <<>>
    ELSE KeptOfFrame(S, A, t) \o KeptFrom(S, A, t + 1)

local_maxima(S) == KeptFrom(S, actual_peaks(S), 0)

(* Spectrograms: a level everywhere, and up to three cells that differ from
   it, in a corner, in the middle and in the opposite corner. dB values are
   <= 0 and the loudest cell is 0 dB (amplitude_to_db with ref=np.max). *)
GridShapes == {<<1, 1>>, <<2, 3>>, <<17, 2>>, <<17, 17>>}
Levels     == {NEG_INF, 0 - 2, 0}
SpotValues == {0 - 1, 0}

SpotsOf(shape) ==
    <<  <<0, 0>>, <<shape[1] \div 2, shape[2] \div 2>>, <<shape[1] - 1, shape[2] - 1>>  >>

\* the spectrogram of a shape at a level, but for the spots of `on`
Grid(shape, level, on, spots) ==
    [bins |-> shape[1], frames |-> shape[2],
     dB |-> [c \in (0..(shape[1] - 1)) \X (0..(shape[2] - 1)) |->
                LET at == {k \in on : SpotsOf(shape)[k] = c}
                IN  IF at = {} THEN level
                    ELSE spots[CHOOSE k \in at : \A j \in at : k <= j]]]

Spectrograms ==
    {S \in {Grid(shape, level, on, spots) :
                shape \in GridShapes, level \in Levels,
                on \in SUBSET (1..3), spots \in [1..3 -> SpotValues]} :
        \E c \in Cells(S) : S.dB[c] = 0}

PeakOff ==
    /\ spec_in_dB = [bins |-> 0, frames |-> 0, dB |-> <<>>]
    /\ local_max = {}
    /\ kept = <<>>
    /\ lpc = "off"

PeakInit ==
    /\ spec_in_dB \in Spectrograms
    /\ local_max = {}
    /\ kept = <<>>
    /\ lpc = "peaks"

LocalMaxima ==
    /\ lpc = "peaks"
    /\ local_max' = LocalMax(spec_in_dB)
    /\ kept' = local_maxima(spec_in_dB)
    /\ lpc' = "done"
    /\ UNCHANGED spec_in_dB
    /\ UNCHANGED <<storeVars, hashVars, matchVars, pickleVars>>

PeakNext == LocalMaxima

----------------------------------------------------------------------------
(* The specifications *)

StoreNext == StartBuild \/ StartRebuild \/ CheckItem \/ TryItem \/ Close

Init == StoreInit /\ HashOff /\ MatchOff /\ PickleOff /\ PeakOff

Next == StoreNext

Spec == Init /\ [][Next]_vars

HashSpecInit == StoreInit /\ HashInit /\ MatchOff /\ PickleOff /\ PeakOff

HashSpec == HashSpecInit /\ [][HashNext]_vars

MatchSpecInit == StoreInit /\ HashOff /\ MatchInit /\ PickleOff /\ PeakOff

MatchSpec == MatchSpecInit /\ [][MatchNext]_vars

EquivSpecInit == StoreInit /\ HashOff /\ EquivInit /\ PeakOff

EquivSpec == EquivSpecInit /\ [][EquivNext]_vars

PeakSpecInit == StoreInit /\ HashOff /\ MatchOff /\ PickleOff /\ PeakInit

PeakSpec == PeakSpecInit /\ [][PeakNext]_vars

----------------------------------------------------------------------------
(* Properties of the builder and the store *)

Running == pc \in {"check", "try", "close"}

HasSong(st, sid) == SongRowsOf(st, sid) # <<>>

\* The hashes rows add_hashes writes for a whole hash list.
RowsFor(sid, hash_list) ==
    [k \in 1..Len(hash_list) |->
        [hash |-> <<"blob", hash_list[k][1]>>, song_id |-> sid, t_song |-> hash_list[k][2]]]

SameRows(st1, st2, sid) ==
    /\ SongRowsOf(st1, sid) = SongRowsOf(st2, sid)
    /\ HashRowsOf(st1, sid) = HashRowsOf(st2, sid)

Absent(st, sid) == SongRowsOf(st, sid) = <<>> /\ HashRowsOf(st, sid) = <<>>

WholeSong(st, sid, hash_list) ==
    /\ Len(SongRowsOf(st, sid)) = 1
    /\ HashRowsOf(st, sid) = RowsFor(sid, hash_list)

\* C1: no partial song is ever committed -- in every committed state each
\* song_id has its songs row together with all the hash rows computed for it,
\* or no row at all.
C1_NoPartialSongCommitted ==
    \A s \in SongIds : Absent(db, s) \/ WholeSong(db, s, intended[s])

\* C2: during a force rebuild of songs that are stored, an external reader
\* finds each of them in every committed state from the start of the run to
\* its end.
C2_ForceRebuildNeverAbsent ==
    (Running /\ mode = "rebuild" /\ force) =>
        \A n \in 1..Len(items) :
            HasSong(snapshot, items[n].song_id) => HasSong(db, items[n].song_id)

OneSongForceRebuild ==
    /\ mode = "rebuild" /\ force
    /\ items # <<>>
    /\ \A n \in 1..Len(items) : items[n].song_id = items[1].song_id

\* C3: when a force rebuild of the single song_id s has ended, every other
\* song has the rows it had before, and (no store call having raised) the
\* rows of s are exactly the rows of the hashes the rebuild computed for s:
\* its songs row and those hash rows, or nothing when it computed none.
C3_ForceRebuildReplacesOneSong ==
    (pc = "close" /\ OneSongForceRebuild) =>
        LET s == items[1].song_id
        IN  /\ \A o \in SongIds \ {s} : SameRows(db, snapshot, o)
            /\ ~storeErr =>
                  IF computed[s] = <<>> THEN Absent(db, s)
                                        ELSE WholeSong(db, s, computed[s])

\* a stored song and another one: the rebuilt one got new, different hashes
C3_Witness ==
    /\ pc = "close" /\ OneSongForceRebuild /\ ~storeErr
    /\ LET s == items[1].song_id
       IN  /\ HasSong(snapshot, s)
           /\ computed[s] # <<>>
           /\ HashRowsOf(snapshot, s) # HashRowsOf(db, s)
           /\ \E o \in SongIds \ {s} : HasSong(snapshot, o)

\* C4: a build never stops at an item that failed -- while it runs it can
\* take a step, when it leaves the loop the loop body was entered for every
\* item, and (no store call having raised) every song_id whose audio was
\* acquired and hashed is stored with those hashes.
C4_BuildNeverAborts ==
    /\ Running => ENABLED StoreNext
    /\ (pc = "close" /\ mode = "build") =>
          /\ attempted = Len(items)
          /\ ~storeErr =>
                \A s \in SongIds : computed[s] # <<>> => WholeSong(db, s, computed[s])

\* the first item failed and the later one was stored
C4_Witness ==
    /\ pc = "close" /\ mode = "build" /\ ~storeErr
    /\ Len(items) = 2
    /\ computed[items[1].song_id] = <<>>
    /\ ~HasSong(db, items[1].song_id)
    /\ ~HasSong(snapshot, items[2].song_id)
    /\ computed[items[2].song_id] # <<>>

\* C5 as stated: a second build of the same manifest leaves the store as the
\* first build left it.
C5_SecondBuildChangesNothing ==
    (pc = "close" /\ rerun) => db = snapshot

\* C5 as amended: in a second build of the same manifest every item whose
\* song_id is stored is skipped without a write, and the rows of the songs
\* stored before the run are the same throughout the run.
C5_SecondBuildKeepsStoredSongs ==
    /\ [](rerun => \A s \in SongIds : HasSong(snapshot, s) => SameRows(db, snapshot, s))
    /\ [][(rerun /\ pc = "check" /\ HasSong(snapshot, items[i].song_id))
            => (pc' # "try" /\ i' = i + 1 /\ db' = db /\ work' = work)]_vars

\* the second build ended and had a stored song to skip
C5_Witness ==
    /\ pc = "close" /\ rerun
    /\ \E n \in 1..Len(items) : HasSong(snapshot, items[n].song_id)

\* C10: in the committed store and in the builder's own view, song_id is
\* unique in songs and every hashes row has the song_id of a songs row.
C10_StoreIntegrity ==
    \A st \in {db, work} :
        /\ \A a, b \in 1..Len(st.songs) :
               st.songs[a].song_id = st.songs[b].song_id => a = b
        /\ \A n \in 1..Len(st.hashes) : HasSong(st, st.hashes[n].song_id)

\* a force rebuild deleted a stored song while another song's rows stayed
C10_Witness ==
    /\ Running /\ mode = "rebuild" /\ force
    /\ db.hashes # <<>>
    /\ \E s \in SongIds : HasSong(snapshot, s) /\ Absent(db, s)

\* C11: an error raised by add_song, add_hashes or commit while an item is
\* written is fatal for the run -- once a store call has raised, the loop is
\* left and no later item is processed.
C11_StoreErrorAbortsBuild ==
    (Running /\ storeErr) => pc = "close"

----------------------------------------------------------------------------
(* Properties of the hasher *)

\* the anchor whose inner loop `scan` records
Scanned == anchor - 1

\* C7: every pair emitted for an anchor (f1,t1) with a target (f2,t2) has
\* 2 <= t2 - t1 <= 64 and |f2 - f1| <= 48, the hash is made of that pair, and
\* a list of a single peak returns no hash.
C7_PairsInsideTargetZone ==
    /\ Scanned >= 1 =>
         \A n \in 1..Len(scan.targets) :
            LET f1 == peaks[Scanned][1]
                t1 == peaks[Scanned][2]
                f2 == peaks[scan.targets[n]][1]
                t2 == peaks[scan.targets[n]][2]
            IN  /\ 2 <= t2 - t1 /\ t2 - t1 <= 64
                /\ f2 - f1 <= 48 /\ f1 - f2 <= 48
                /\ out[Len(out) - Len(scan.targets) + n] = <<<<f1, f2, t2 - t1>>, t1>>
    /\ (hpc = "done" /\ Len(peaks) = 1) => out = <<>>

\* a pair on the far corner of the zone was emitted: 64 frames, 48 bins apart
C7_Witness ==
    /\ Scanned >= 1
    /\ \E n \in 1..Len(scan.targets) :
         /\ peaks[scan.targets[n]][2] - peaks[Scanned][2] = 64
         /\ Abs(peaks[scan.targets[n]][1] - peaks[Scanned][1]) = 48
    /\ \E j \in (Scanned + 1)..Len(peaks) : peaks[j][2] - peaks[Scanned][2] < 2

\* The peaks after anchor a that lie in its target zone, in list order.
Qualifying(a) ==
    LET later == [k \in 1..(Len(peaks) - a) |-> a + k]
        inside(j) == /\ 2 <= peaks[j][2] - peaks[a][2]
                     /\ peaks[j][2] - peaks[a][2] <= 64
                     /\ Abs(peaks[j][1] - peaks[a][1]) <= 48
    IN  SelectSeq(later, inside)

Min(a, b) == IF a <= b THEN a ELSE b

\* C8: an anchor gets at most 8 pairs; they are made with the first peaks of
\* the list that lie in its zone; and the scan stops at the 8th of them, or at
\* the first peak later than t1 + 64, or at the end of the list.
C8_FanoutCap ==
    Scanned >= 1 =>
        LET q == Qualifying(Scanned)
            t1 == peaks[Scanned][2]
        IN  /\ Len(scan.targets) <= 8
            /\ scan.targets = SubSeq(q, 1, Min(8, Len(q)))
            /\ IF Len(scan.targets) = 8
               THEN scan.j = scan.targets[8]
               ELSE /\ scan.j = Len(peaks) + 1 \/ peaks[scan.j][2] > t1 + 64
                    /\ \A j \in (Scanned + 1)..(scan.j - 1) : peaks[j][2] <= t1 + 64

\* the cap cut the scan short of a peak in the zone, after passing peaks outside it
C8_Witness ==
    /\ Scanned >= 1
    /\ Len(scan.targets) = 8
    /\ Len(Qualifying(Scanned)) > 8
    /\ scan.j - Scanned > 9

----------------------------------------------------------------------------
(* Properties of the matcher *)

\* (query record, stored posting of song sid) pairs with the same hash key
Hits(sid) ==
    {p \in (1..Len(mQuery)) \X (1..Len(mStore.hashes)) :
        /\ mStore.hashes[p[2]].hash = <<"blob", mQuery[p[1]][1]>>
        /\ mStore.hashes[p[2]].song_id = sid}

OffsetOf(p) == mStore.hashes[p[2]].t_song - mQuery[p[1]][2]

CountAt(sid, d) == Cardinality({p \in Hits(sid) : OffsetOf(p) = d})

Offsets(sid) == {OffsetOf(p) : p \in Hits(sid)}

\* the count at the best offset
VotesOf(sid) == CHOOSE n \in 0..Cardinality(Hits(sid)) :
    /\ \A d \in Offsets(sid) : CountAt(sid, d) <= n
    /\ n = 0 \/ \E d \in Offsets(sid) : CountAt(sid, d) = n

Candidates == {sid \in SongIds : Hits(sid) # {}}

Returned == {mScored[n].song_id : n \in 1..Len(mScored)}

\* the query is the hash list of song sid, and the store holds that song only
SelfMatch(sid) ==
    /\ mQuery # <<>>
    /\ mStore.songs = <<[song_id |-> sid, title |-> TitleOf(sid)]>>
    /\ mStore.hashes = RowsFor(sid, mQuery)

\* C6: matching the hash list of a song against a store that holds just that
\* song returns the song alone at rank 1, with votes >= 1 counted at offset 0,
\* and every other offset has fewer votes than offset 0.
C6_SelfMatch ==
    \A sid \in SongIds :
        (mpc = "done" /\ SelfMatch(sid)) =>
            /\ Len(mResult) = 1
            /\ mScored[1].song_id = sid
            /\ mResult[1][1] = TitleOf(sid)
            /\ mResult[1][2] >= 1
            /\ mResult[1][2] = CountAt(sid, 0)
            /\ mResult[1][3] = 0
            /\ \A d \in Offsets(sid) \ {0} : CountAt(sid, d) < CountAt(sid, 0)

\* a self-match whose hash list repeats a key at two times, so that offsets
\* other than 0 get votes too
C6_Witness ==
    /\ mpc = "done"
    /\ \E sid \in SongIds : SelfMatch(sid) /\ Offsets(sid) \ {0} # {}
    /\ \E n \in 1..Len(mQuery) : \E m \in 1..Len(mQuery) :
          n # m /\ mQuery[n][1] = mQuery[m][1]

\* The result is the first topk of the candidates in the order `before`.
RankedBy(before(_, _)) ==
    /\ Returned \subseteq Candidates
    /\ Len(mScored) = Min(mTopk, Cardinality(Candidates))
    /\ \A n, m \in 1..Len(mScored) : n < m => before(mScored[n].song_id, mScored[m].song_id)
    /\ \A n \in 1..Len(mScored) : \A sid \in Candidates \ Returned :
          before(mScored[n].song_id, sid)
    /\ \A n \in 1..Len(mScored) :
          /\ mScored[n].votes = VotesOf(mScored[n].song_id)
          /\ mResult[n][2] = mScored[n].votes

\* C9 as stated: votes descending, then total_hits descending, then the
\* smallest song_id first.
StatedBefore(a, b) ==
    \/ VotesOf(a) > VotesOf(b)
    \/ /\ VotesOf(a) = VotesOf(b)
       /\ Cardinality(Hits(a)) > Cardinality(Hits(b))
    \/ /\ VotesOf(a) = VotesOf(b)
       /\ Cardinality(Hits(a)) = Cardinality(Hits(b))
       /\ a < b

\* C9 as stated: the result is the first topk candidates by votes, ties by
\* total_hits, then by song_id.
C9_SortedWithTiebreaks == mpc = "done" => RankedBy(StatedBefore)

\* Where a song gets its first vote: the rank of the query key (keys in order
\* of first occurrence in the query), then the row of the posting.
KeyRank(n) == CHOOSE k \in 1..n :
    /\ mQuery[k][1] = mQuery[n][1]
    /\ \A j \in 1..(k - 1) : mQuery[j][1] # mQuery[n][1]

FirstVote(sid) ==
    LET at == {KeyRank(p[1]) * (Len(mStore.hashes) + 1) + p[2] : p \in Hits(sid)}
    IN  CHOOSE x \in at : \A y \in at : x <= y

CodeBefore(a, b) ==
    \/ VotesOf(a) > VotesOf(b)
    \/ VotesOf(a) = VotesOf(b) /\ FirstVote(a) < FirstVote(b)

\* C9 as amended: the result is the first topk candidates by votes
\* descending, candidates of equal votes in the order in which they got their
\* first vote.
C9_SortedByVotesThenFirstVote == mpc = "done" => RankedBy(CodeBefore)

\* two candidates of equal votes came back; the one with fewer total_hits
\* and the larger song_id got its vote first and is ranked first
C9_Witness ==
    /\ mpc = "done"
    /\ Len(mScored) = 2
    /\ mScored[1].votes = mScored[2].votes
    /\ mScored[1].total_hits < mScored[2].total_hits
    /\ mScored[1].song_id > mScored[2].song_id

\* C12: every candidate returned for song s has total_hits equal to the number
\* of (query record, posting of s) pairs with the same hash key, and votes
\* equal to the largest number of those pairs at one offset t_song - t_query,
\* which its offset attains, so 1 <= votes <= total_hits; and the result is
\* empty exactly when the query is empty or no query key has a posting.
C12_VotesAndTotalHits ==
    mpc = "done" =>
        /\ \A n \in 1..Len(mScored) :
              LET sid == mScored[n].song_id
              IN  /\ mScored[n].total_hits = Cardinality(Hits(sid))
                  /\ mScored[n].votes = VotesOf(sid)
                  /\ CountAt(sid, mScored[n].offset) = mScored[n].votes
                  /\ 1 <= mScored[n].votes
                  /\ mScored[n].votes <= mScored[n].total_hits
                  /\ mResult[n][2] = mScored[n].votes
                  /\ mResult[n][4] = mScored[n].total_hits
        /\ Len(mResult) = Len(mScored)
        /\ (mResult = <<>>) <=> (mQuery = <<>> \/ Candidates = {})

\* the one candidate came back with its pairs spread over several offsets,
\* two or more of them at the best one
C12_Witness ==
    /\ mpc = "done"
    /\ \E n \in 1..Len(mScored) :
          /\ mScored[n].votes >= 2
          /\ mScored[n].total_hits > mScored[n].votes
    /\ Cardinality(Candidates) = 1

\* C14 as stated: for the same query and the same postings in the same order
\* the pickle-backed matcher and match_hashes_sqlite with topk=1 both return
\* nothing, or both return the same song_id, votes, best_offset and total_hits.
C14_MatchersAgree ==
    (mpc = "done" /\ ppc = "done") => pResult = mScored

\* C14 as amended: both return nothing, or both return the same song_id with
\* the same votes and total_hits and each an offset that has that many votes.
C14_MatchersAgreeUpToTiedOffset ==
    (mpc = "done" /\ ppc = "done") =>
        /\ Len(pResult) = Len(mScored)
        /\ Len(pResult) <= 1
        /\ (pResult = <<>>) <=> (mQuery = <<>> \/ Candidates = {})
        /\ pResult # <<>> =>
              /\ pResult[1].song_id = mScored[1].song_id
              /\ pResult[1].votes = mScored[1].votes
              /\ pResult[1].total_hits = mScored[1].total_hits
              /\ pResult[1].total_hits = Cardinality(Hits(pResult[1].song_id))
              /\ CountAt(pResult[1].song_id, pResult[1].offset) = pResult[1].votes
              /\ CountAt(mScored[1].song_id, mScored[1].offset) = mScored[1].votes

\* both matchers answered with the same song, and with different offsets
C14_Witness ==
    /\ mpc = "done" /\ ppc = "done"
    /\ pResult # <<>> /\ mScored # <<>>
    /\ pResult[1].song_id = mScored[1].song_id
    /\ pResult[1].offset # mScored[1].offset

----------------------------------------------------------------------------
(* Properties of the peak extractor *)

\* the cells of the spectrogram that the footprint around c covers
FootprintInside(S, c) == Footprint(c[1], c[2]) \cap Cells(S)

\* a finite cell that no cell of the spectrogram in its footprint exceeds
DominatesInside(S, c) ==
    /\ S.dB[c] # NEG_INF
    /\ \A n \in FootprintInside(S, c) : S.dB[n] <= S.dB[c]

\* C13: cells outside the spectrogram count as minus infinity -- every finite
\* cell that is >= every cell of the spectrogram in its 16x16 footprint is a
\* candidate peak, at the edges and below 0 dB too.
C13_OutOfBoundsIsMinusInfinity ==
    lpc = "done" =>
        \A c \in Cells(spec_in_dB) : DominatesInside(spec_in_dB, c) => c \in local_max
====
